---- MODULE Spec2Model ----
(***************************************************************************)
(* Model of pg_fts/aggregates.py (django-pg-fts): the rank aggregates      *)
(* FTSRank, FTSRankCd, FTSRankDictionay and FTSRankCdDictionary, their     *)
(* construction from one keyword lookup, Aggregate.add_to_query, which     *)
(* attaches a rank to a query, and AggregateRegister.as_sql, which renders *)
(* the registered rank expression.                                         *)
(*                                                                         *)
(* Python str values are TLA+ strings; Len, SubSeq and \o act on them as   *)
(* on sequences of characters.  A raised exception is the name of its      *)
(* class in the field "raised" of a call's result; "" is a normal return.  *)
(***************************************************************************)
EXTENDS Integers, Sequences, FiniteSets, TLC

VARIABLES spec, query, last

vars == <<spec, query, last>>

(***************************************************************************)
(* Bounds of the model.                                                    *)
(***************************************************************************)
\* add_to_query is taken while the query holds fewer WHERE fragments.
MaxAttach == 2
\* Longest normalization list a constructor is given.
MaxNormLen == 2
\* Most segments of a keyword lookup path.
MaxSegs == 3

(***************************************************************************)
(* Python string primitives, computed character by character.              *)
(***************************************************************************)
RECURSIVE Find(_, _, _)
\* str.find(sub, start): the first index >= i where sub occurs in s, 0 if none.
Find(s, sub, i) ==
    IF i + Len(sub) - 1 > Len(s) THEN 0
    ELSE IF SubSeq(s, i, i + Len(sub) - 1) = sub THEN i
    ELSE Find(s, sub, i + 1)

RECURSIVE Split(_, _)
\* str.split(sep): the pieces of s between the occurrences of sep, left to right.
Split(s, sep) ==
    LET i == Find(s, sep, 1)
    IN  IF i = 0 THEN <<s>>
        ELSE <<SubSeq(s, 1, i - 1)>> \o Split(SubSeq(s, i + Len(sep), Len(s)), sep)

RECURSIVE Join(_, _)
\* sep.join(parts)
Join(sep, parts) ==
    IF parts = <<>> THEN ""
    ELSE IF Len(parts) = 1 THEN parts[1]
    ELSE parts[1] \o sep \o Join(sep, Tail(parts))

UpperCase == "ABCDEFGHIJKLMNOPQRSTUVWXYZ"
LowerCase == "abcdefghijklmnopqrstuvwxyz"

RECURSIVE Lower(_)
\* str.lower()
Lower(s) ==
    IF s = "" THEN ""
    ELSE LET c == SubSeq(s, 1, 1)
             i == Find(UpperCase, c, 1)
         IN  (IF i = 0 THEN c ELSE SubSeq(LowerCase, i, i))
                 \o Lower(SubSeq(s, 2, Len(s)))

Digits == "0123456789"

RECURSIVE FormatNat(_)
FormatNat(n) ==
    IF n < 10 THEN SubSeq(Digits, n + 1, n + 1)
    ELSE FormatNat(n \div 10) \o SubSeq(Digits, (n % 10) + 1, (n % 10) + 1)

\* '%d' % i for an int i
FormatD(i) == IF i < 0 THEN "-" \o FormatNat(0 - i) ELSE FormatNat(i)

RECURSIVE FormatS(_, _)
\* template % args for a template whose conversions are all %s: each %s, left
\* to right, is replaced by the next argument (inserted text is not rescanned).
FormatS(template, args) ==
    LET i == Find(template, "%s", 1)
    IN  IF i = 0 \/ args = <<>> THEN template
        ELSE SubSeq(template, 1, i - 1) \o args[1]
                 \o FormatS(SubSeq(template, i + 2, Len(template)), Tail(args))

RECURSIVE FormatNamed(_, _)
\* template % mapping for a template whose conversions are all %(key)s.
FormatNamed(template, mapping) ==
    LET i == Find(template, "%(", 1)
    IN  IF i = 0 THEN template
        ELSE LET j == Find(template, ")s", i)
                 key == SubSeq(template, i + 2, j - 1)
             IN  SubSeq(template, 1, i - 1) \o mapping[key]
                     \o FormatNamed(SubSeq(template, j + 2, Len(template)), mapping)

\* dict.update: the entries of b, and those of a under the other keys.
Update(a, b) ==
    [k \in (DOMAIN a) \cup (DOMAIN b) |-> IF k \in DOMAIN b THEN b[k] ELSE a[k]]

LOOKUP_SEP == "__"

\* Python's None, where an alias is expected: no alias string equals it.
None == "<None>"

(***************************************************************************)
(* The classes: their bases and the attributes each class body sets.       *)
(***************************************************************************)
Classes == {"FTSRank", "FTSRankCd", "FTSRankDictionay", "FTSRankCdDictionary"}

Base ==
    [FTSRank |-> "Aggregate", FTSRankCd |-> "FTSRank",
     FTSRankDictionay |-> "FTSRank", FTSRankCdDictionary |-> "FTSRankDictionay"]

\* FTSRankDictionay sets neither name nor sql_function: it only defines __init__.
OwnAttrs ==
    [Aggregate |-> [sql_function |-> "", rhs |-> "", dictionary |-> "",
                    srt_lookup |-> ""],
     FTSRank |-> [name |-> "FTSRank", sql_function |-> "ts_rank",
                  dictionary |-> "", init |-> "FTSRank"],
     FTSRankCd |-> [sql_function |-> "ts_rank_cd", name |-> "FTSRankCd"],
     FTSRankDictionay |-> [init |-> "FTSRankDictionay"],
     FTSRankCdDictionary |-> [sql_function |-> "ts_rank_cd",
                              name |-> "FTSRankCdDictionary"]]

RECURSIVE ClassAttr(_, _)
\* Attribute lookup along the bases of a class.
ClassAttr(cls, attr) ==
    IF attr \in DOMAIN OwnAttrs[cls] THEN OwnAttrs[cls][attr]
    ELSE ClassAttr(Base[cls], attr)

(***************************************************************************)
(* Construction.  A constructor call is (cls, kw, extra): kw is the        *)
(* keyword normalization (given or not), extra the other keyword           *)
(* arguments, a set of items [name, value] with distinct names.  A         *)
(* normalization entry is [type, value]: an int, or a str (value unused).  *)
(***************************************************************************)
\* extra.pop('normalization', [])
PopNormalization(kw) == IF kw.given THEN kw.value ELSE <<>>

\* A mutation of ArgCountOk: the assertion only rejects an empty extra.
ArgCountOk_AtLeastOne(extra) == Cardinality(extra) >= 1

\* assert len(extra) == 1
ArgCountOk(extra) == Cardinality(extra) = 1

\* tuple(extra.items())[0], for an extra of one item
FirstItem(extra) == CHOOSE item \in extra : TRUE

\* lookups[-1]
LastSegment(lookups) == lookups[Len(lookups)]

\* LOOKUP_SEP.join(lookups[:-1])
FTSRank_lookup(lookups) == Join(LOOKUP_SEP, SubSeq(lookups, 1, Len(lookups) - 1))

\* A mutation of FTSRankDictionay_lookup: only the last segment is dropped.
FTSRankDictionay_lookup_DropOne(lookups) ==
    Join(LOOKUP_SEP, SubSeq(lookups, 1, Len(lookups) - 1))

\* LOOKUP_SEP.join(lookups[:-2])
FTSRankDictionay_lookup(lookups) ==
    Join(LOOKUP_SEP, SubSeq(lookups, 1, Len(lookups) - 2))

\* FTSRank.__init__(self, **extra): the result of the call and, when it
\* returns, the object.
FTSRank_init(cls, kw, extra) ==
    LET normalization == PopNormalization(kw)
    IN  IF ~ArgCountOk(extra) THEN [raised |-> "AssertionError"]
        ELSE LET params == FirstItem(extra)
                 lookups == Split(params.name, LOOKUP_SEP)
             IN  [raised |-> "",
                  self |-> [cls |-> cls,
                            normalization |-> normalization,
                            rhs |-> params.value,
                            srt_lookup |-> LastSegment(lookups),
                            extra |-> [kwargs |-> extra],
                            lookup |-> FTSRank_lookup(lookups),
                            dictionary |-> ClassAttr(cls, "dictionary")]]

\* FTSRankDictionay.__init__(self, **extra).  lookups[-2:] of a one-segment
\* path holds one value, and unpacking it into two names raises ValueError.
FTSRankDictionay_init(cls, kw, extra) ==
    LET normalization == PopNormalization(kw)
    IN  IF ~ArgCountOk(extra) THEN [raised |-> "AssertionError"]
        ELSE LET params == FirstItem(extra)
                 lookups == Split(params.name, LOOKUP_SEP)
                 n == Len(lookups)
             IN  IF n < 2 THEN [raised |-> "ValueError"]
                 ELSE [raised |-> "",
                       self |-> [cls |-> cls,
                                 normalization |-> normalization,
                                 rhs |-> params.value,
                                 srt_lookup |-> lookups[n],
                                 extra |-> [kwargs |-> extra],
                                 lookup |-> FTSRankDictionay_lookup(lookups),
                                 dictionary |-> lookups[n - 1]]]

\* cls(**kwargs): the __init__ the class inherits.
New(cls, kw, extra) ==
    IF ClassAttr(cls, "init") = "FTSRankDictionay"
    THEN FTSRankDictionay_init(cls, kw, extra)
    ELSE FTSRank_init(cls, kw, extra)

\* Aggregate._default_alias
default_alias(self) ==
    FormatS("%s__%s", <<self.lookup, Lower(ClassAttr(self.cls, "name"))>>)

\* No rank object has been constructed yet.
NoSpec == [cls |-> "NoSpec"]

(***************************************************************************)
(* The collaborators add_to_query is handed: the column it attaches to     *)
(* (col), the field behind it (source) and the query.                      *)
(*   source.dictionary  the field's declared default dictionary            *)
(*   source.transforms  the names get_transform accepts                    *)
(*   source.lookups     the names get_lookup knows                         *)
(***************************************************************************)
BodySource ==
    [col |-> <<"article", "body">>, dictionary |-> "english",
     transforms |-> {"english", "portuguese"}, lookups |-> {"search"}]

TitleSource ==
    [col |-> <<"article", "title">>, dictionary |-> "portuguese",
     transforms |-> {"portuguese"}, lookups |-> {"search"}]

Sources == {BodySource, TitleSource}

\* source.get_transform(name): "if not will raise error"
get_transform(source, name) ==
    IF name \in source.transforms THEN "" ELSE "ConfigurationError"

\* The template of the match lookup, as the rendered WHERE of the docstrings.
lookup_sql == "%s @@ to_tsquery('%s', %s)"

\* source._get_db_prep_lookup(lookup_type, value): 'Hello world' is bound as
\* 'Hello & world'.
get_db_prep_lookup(source, lookup_type, value) == Join(" & ", Split(value, " "))

\* '.'.join('"%s"' % c for c in col)
QuotedColumn(col) == Join(".", [i \in 1..Len(col) |-> FormatS("\"%s\"", <<col[i]>>)])

\* query.add_extra(select=None, select_params=None, where=..., params=...,
\*                 tables=None, order_by=None): one more fragment of the WHERE.
add_extra(q, where, params) ==
    [q EXCEPT !.where = Append(@, [sqls |-> where, params |-> params])]

\* AggregateRegister.__init__(col, source, sql_function, **extra)
AggregateRegister(col, source, sql_function, extra) ==
    [col |-> col, source |-> source, sql_function |-> sql_function,
     extra |-> extra, params |-> extra.params,
     normalization |-> extra.normalization_arr]

\* mapping[key] = value
SetItem(mapping, key, value) ==
    [k \in (DOMAIN mapping) \cup {key} |-> IF k = key THEN value ELSE mapping[k]]

\* A mutation of group_by_append: the column is appended without the test.
group_by_append_Always(group_by, col) == Append(group_by, col)

\* A mutation of group_by_append: a new column goes to the front.
group_by_append_Front(group_by, col) ==
    IF \E i \in 1..Len(group_by) : group_by[i] = col THEN group_by
    ELSE <<col>> \o group_by

\* if col not in query.group_by: query.group_by.append(col)
group_by_append(group_by, col) ==
    IF \E i \in 1..Len(group_by) : group_by[i] = col THEN group_by
    ELSE Append(group_by, col)

\* A mutation of add_to_query: the WHERE fragment is added before the
\* dictionary is validated.
add_to_query_WhereFirst(self, q, alias, col, source) ==
    LET dictionary == IF self.dictionary # "" THEN self.dictionary
                      ELSE source.dictionary
        params == get_db_prep_lookup(source, self.srt_lookup, self.rhs)
        fts_query == FormatS(lookup_sql, <<QuotedColumn(col), dictionary, "%s">>)
        q1 == add_extra(q, <<FormatS(fts_query, <<"%s">>)>>, <<params>>)
        self1 == [self EXCEPT !.dictionary = dictionary]
        extra == [params |-> params, dictionary |-> dictionary,
                  normalization_arr |-> self.normalization]
        aggregate == AggregateRegister(col, source,
                                       ClassAttr(self.cls, "sql_function"), extra)
    IN  IF self.dictionary # "" /\ get_transform(source, self.dictionary) # ""
        THEN [raised |-> get_transform(source, self.dictionary),
              self |-> self, query |-> q1]
        ELSE IF self.srt_lookup \notin source.lookups
        THEN [raised |-> "AttributeError", self |-> self1, query |-> q1]
        ELSE [raised |-> "",
              self |-> [self1 EXCEPT !.extra = extra],
              query |-> [q1 EXCEPT
                  !.aggregates = SetItem(@, alias, aggregate),
                  !.group_by = group_by_append(@, col)]]

\* Aggregate.add_to_query(self, query, alias, col, source): the result of the
\* call, the object and the query after it.  An unknown lookup name makes
\* get_lookup return None, and lookup.lookup_sql raises AttributeError.
add_to_query(self, q, alias, col, source) ==
    IF self.dictionary # "" /\ get_transform(source, self.dictionary) # ""
    THEN [raised |-> get_transform(source, self.dictionary),
          self |-> self, query |-> q]
    ELSE
    LET self1 == IF self.dictionary # "" THEN self
                 ELSE [self EXCEPT !.dictionary = source.dictionary]
    IN  IF self.srt_lookup \notin source.lookups
        THEN [raised |-> "AttributeError", self |-> self1, query |-> q]
        ELSE
        LET fts_query == FormatS(lookup_sql,
                                 <<QuotedColumn(col), self1.dictionary, "%s">>)
            params == get_db_prep_lookup(source, self.srt_lookup, self.rhs)
            extra == [params |-> params, dictionary |-> self1.dictionary,
                      normalization_arr |-> self1.normalization]
            q1 == add_extra(q, <<FormatS(fts_query, <<"%s">>)>>, <<params>>)
            aggregate == AggregateRegister(col, source,
                                           ClassAttr(self.cls, "sql_function"),
                                           extra)
        IN  [raised |-> "",
             self |-> [self1 EXCEPT !.extra = extra],
             query |-> [q1 EXCEPT
                 !.aggregates = SetItem(@, alias, aggregate),
                 !.group_by = group_by_append(@, col)]]

(***************************************************************************)
(* Rendering.                                                              *)
(***************************************************************************)
sql_template ==
    "%(function)s(%(field_name)s, to_tsquery('%(dictionary)s', %(place)s)%(normalization)s)"

\* qn(c): the connection's quoting of a name
qn(c) == FormatS("\"%s\"", <<c>>)

\* A mutation of normalization_params: the flags are joined with a comma.
normalization_params_Comma(normalization) ==
    IF normalization # <<>>
    THEN ", " \o Join(",", [i \in 1..Len(normalization) |->
                                FormatD(normalization[i].value)])
    ELSE ""

\* ', ' + '|'.join('%d' % i for i in self.normalization) if the list is not
\* empty, else ''
normalization_params(normalization) ==
    IF normalization # <<>>
    THEN ", " \o Join("|", [i \in 1..Len(normalization) |->
                                FormatD(normalization[i].value)])
    ELSE ""

\* AggregateRegister.as_sql(qn, connection): '%d' % i raises TypeError for an
\* i that is not a number.
as_sql(agg) ==
    IF \E i \in 1..Len(agg.normalization) : agg.normalization[i].type # "int"
    THEN [raised |-> "TypeError"]
    ELSE
    LET substitutions ==
            [field_name |-> Join(".", [i \in 1..Len(agg.col) |-> qn(agg.col[i])]),
             function |-> agg.sql_function,
             place |-> "%s",
             normalization |-> normalization_params(agg.normalization)]
    IN  [raised |-> "",
         sql |-> FormatNamed(sql_template, Update(substitutions, agg.extra)),
         params |-> <<agg.params>>]

(***************************************************************************)
(* The calls a run makes.                                                  *)
(***************************************************************************)
Rhs == "Hello world"

Item(path) == [name |-> path, value |-> Rhs]

NormalizationAbsent == [given |-> FALSE, value |-> <<>>]

\* Flags of ts_rank's normalization, a negative int and a str.
NormEntries ==
    {[type |-> "int", value |-> v] : v \in {0, 2, 32, -1}}
        \cup {[type |-> "str", value |-> 0]}

NormLists == UNION {[1..n -> NormEntries] : n \in 0..MaxNormLen}

NormalizationArgs ==
    {NormalizationAbsent} \cup {[given |-> TRUE, value |-> l] : l \in NormLists}

SegNames == {"body", "fts_index", "portuguese", "search"}

\* The keyword names of 1..MaxSegs segments.
Paths ==
    {Join(LOOKUP_SEP, segs) : segs \in UNION {[1..n -> SegNames] : n \in 1..MaxSegs}}

\* Keyword arguments of a call: none, one, or two.
OneArg(paths) == {{Item(p)} : p \in paths}

NotOneArg == {{}, {Item("body__search"), Item("title__search")}}

AttachPaths == {"body", "body__search", "body__english__search"}

Aliases == {"rank", None}

InitialGroupBy == {<<>>, <<<<"article", "id">>, <<"article", "body">>>>}

\* The query before any rank is attached: no extra WHERE, no aggregate, and
\* the columns the query already groups by.
NewQuery(group_by) == [where |-> <<>>, aggregates |-> <<>>, group_by |-> group_by]

Init ==
    /\ spec = NoSpec
    /\ \E g \in InitialGroupBy : query = NewQuery(g)
    /\ last = [op |-> "none"]

InitRender ==
    /\ spec = NoSpec
    /\ query = NewQuery(<<>>)
    /\ last = [op |-> "none"]

\* spec = cls(normalization=..., **extra)
Construct(cls, kw, extra) ==
    LET r == New(cls, kw, extra)
    IN  /\ spec' = IF r.raised = "" THEN r.self ELSE spec
        /\ query' = query
        /\ last' = [op |-> "__init__", cls |-> cls, raised |-> r.raised,
                    nargs |-> Cardinality(extra),
                    name |-> IF Cardinality(extra) = 1
                             THEN FirstItem(extra).name ELSE ""]

\* spec.add_to_query(query, alias, source.col, source)
Attach(alias, source) ==
    /\ spec # NoSpec
    /\ Len(query.where) < MaxAttach
    /\ LET r == add_to_query(spec, query, alias, source.col, source)
       IN  /\ spec' = r.self
           /\ query' = r.query
           /\ last' = [op |-> "add_to_query", raised |-> r.raised,
                       alias |-> alias, source |-> source]

\* query.aggregates[alias].as_sql(qn, connection)
Render(alias) ==
    /\ alias \in DOMAIN query.aggregates
    /\ UNCHANGED <<spec, query>>
    /\ last' = [op |-> "as_sql", alias |-> alias] @@ as_sql(query.aggregates[alias])

\* Attaching: every class, on both sources, under both aliases.
Next ==
    \/ \E cls \in Classes, extra \in OneArg(AttachPaths) :
           Construct(cls, NormalizationAbsent, extra)
    \/ \E alias \in Aliases, source \in Sources : Attach(alias, source)

Spec == Init /\ [][Next]_vars

\* Construction of a first object: every class, every path, zero to two
\* keyword arguments.
NextConstruct ==
    /\ spec = NoSpec
    /\ \E cls \in Classes, extra \in OneArg(Paths) \cup NotOneArg :
           Construct(cls, NormalizationAbsent, extra)

SpecConstruct == Init /\ [][NextConstruct]_vars

\* Rendering: one object of every normalization list, attached and rendered.
NextRender ==
    \/ /\ spec = NoSpec
       /\ \E kw \in NormalizationArgs :
              Construct("FTSRank", kw, {Item("body__search")})
    \/ Attach("rank", BodySource)
    \/ Render("rank")

SpecRender == InitRender /\ [][NextRender]_vars

(***************************************************************************)
(* Vocabulary of the properties.                                           *)
(***************************************************************************)
\* The classes whose __init__ parses a dictionary out of the path.
IsDictionaryAware(cls) == cls \in {"FTSRankDictionay", "FTSRankCdDictionary"}

Attached == last.op = "add_to_query" /\ last.raised = ""

\* The step is a call of add_to_query that returns.
AttachStep == last'.op = "add_to_query" /\ last'.raised = ""

\* The step attaches again what the step before attached: no constructor ran
\* in between, and alias and column are the same.
ReattachStep ==
    /\ Attached
    /\ AttachStep
    /\ last'.alias = last.alias
    /\ last'.source = last.source

Count(x, seq) == Cardinality({i \in 1..Len(seq) : seq[i] = x})

IsPrefix(a, b) == Len(a) <= Len(b) /\ SubSeq(b, 1, Len(a)) = a

\* The dictionary name a rendered fragment hands to to_tsquery.
DictionaryIn(sql) ==
    LET i == Find(sql, "to_tsquery('", 1) + Len("to_tsquery('")
    IN  SubSeq(sql, i, Find(sql, "'", i) - 1)

\* The rendered rank expression between the placeholder's ')' and the last ')'.
SuffixOf(sql) == SubSeq(sql, Find(sql, "%s)", 1) + Len("%s)"), Len(sql) - 1)

RECURSIVE ParseNat(_)
\* The number a string of decimal digits writes; -1 for any other string.
ParseNat(s) ==
    IF s = "" THEN -1
    ELSE LET d == Find(Digits, SubSeq(s, Len(s), Len(s)), 1) - 1
         IN  IF d < 0 THEN -1
             ELSE IF Len(s) = 1 THEN d
             ELSE LET rest == ParseNat(SubSeq(s, 1, Len(s) - 1))
                  IN  IF rest < 0 THEN -1 ELSE 10 * rest + d

ValidFlag(entry) == entry.type = "int" /\ entry.value >= 0

SegSeqs == UNION {[1..n -> SegNames] : n \in 1..MaxSegs}

(***************************************************************************)
(* C1.  add_to_query is all-or-nothing: on a dictionary-aware object whose *)
(* dictionary is not a transform of the source it raises the configuration *)
(* error; a call that raises leaves the query's WHERE fragments, their     *)
(* parameters, its aggregates and its GROUP BY as they were; a call that   *)
(* returns has added one WHERE fragment with its parameter, registered the *)
(* aggregate of the column under the alias, and has the column grouped.    *)
(***************************************************************************)
C1_AllOrNothing ==
    [][last'.op = "add_to_query" =>
        /\ (IsDictionaryAware(spec.cls)
              /\ spec.dictionary \notin last'.source.transforms
                => last'.raised = "ConfigurationError")
        /\ (last'.raised # "" => query' = query)
        /\ (last'.raised = "" =>
              /\ Len(query'.where) = Len(query.where) + 1
              /\ SubSeq(query'.where, 1, Len(query.where)) = query.where
              /\ query'.where[Len(query'.where)].params
                     = <<get_db_prep_lookup(last'.source, spec.srt_lookup, spec.rhs)>>
              /\ last'.alias \in DOMAIN query'.aggregates
              /\ query'.aggregates[last'.alias].col = last'.source.col
              /\ query'.aggregates[last'.alias].sql_function
                     = ClassAttr(spec.cls, "sql_function")
              /\ Count(last'.source.col, query'.group_by) >= 1)]_vars

\* A dictionary-aware object was refused by a query that already holds a rank.
C1_Witness ==
    /\ last.op = "add_to_query"
    /\ last.raised = "ConfigurationError"
    /\ IsDictionaryAware(spec.cls)
    /\ spec.dictionary = "english"
    /\ Len(query.where) = 1
    /\ DOMAIN query.aggregates = {"rank"}

(***************************************************************************)
(* C2.  Grouping is idempotent: after a call of add_to_query that returns, *)
(* the attached column, and the column of every registered aggregate, is   *)
(* in GROUP BY exactly once, and the GROUP BY of before the call is a      *)
(* prefix of the one after it.                                             *)
(***************************************************************************)
C2_IdempotentGrouping ==
    [][AttachStep =>
        /\ Count(last'.source.col, query'.group_by) = 1
        /\ \A a \in DOMAIN query'.aggregates :
               Count(query'.aggregates[a].col, query'.group_by) = 1
        /\ IsPrefix(query.group_by, query'.group_by)
        /\ Len(query'.group_by) <= Len(query.group_by) + 1]_vars

\* Two ranks of different functions over one column, which was not grouped
\* before and is grouped once.
C2_Witness ==
    /\ Attached
    /\ DOMAIN query.aggregates = {"rank", None}
    /\ query.aggregates["rank"].col = <<"article", "title">>
    /\ query.aggregates[None].col = <<"article", "title">>
    /\ query.aggregates["rank"].sql_function # query.aggregates[None].sql_function
    /\ query.group_by = <<<<"article", "id">>, <<"article", "body">>,
                          <<"article", "title">>>>

(***************************************************************************)
(* C3, as claimed.  Attaching the same object again under the same alias   *)
(* and column duplicates the WHERE fragment and duplicates the column's    *)
(* GROUP BY entry.                                                         *)
(***************************************************************************)
C3_ReattachDuplicatesGroupBy ==
    [][ReattachStep =>
        /\ query'.where = Append(query.where, query.where[Len(query.where)])
        /\ Count(last'.source.col, query'.group_by) = 2]_vars

(***************************************************************************)
(* C3, amended.  Attaching the same object again under the same alias and  *)
(* column duplicates the WHERE fragment, predicate and bound parameter,    *)
(* and leaves GROUP BY, which holds the column once, and the aggregates as *)
(* they were.                                                              *)
(***************************************************************************)
C3_ReattachDuplicatesWhereOnly ==
    [][ReattachStep =>
        /\ query'.where = Append(query.where, query.where[Len(query.where)])
        /\ query'.group_by = query.group_by
        /\ Count(last'.source.col, query'.group_by) = 1
        /\ query'.aggregates = query.aggregates]_vars

\* The query holds the same fragment twice, one aggregate and the column once.
C3_Witness ==
    /\ Attached
    /\ Len(query.where) = 2
    /\ query.where[1] = query.where[2]
    /\ DOMAIN query.aggregates = {last.alias}
    /\ query.group_by = <<last.source.col>>

(***************************************************************************)
(* C4.  After a call of add_to_query that returns, the dictionary in the   *)
(* WHERE fragment it added and the dictionary in the rendered aggregate it *)
(* registered are the same name: the object's parsed dictionary for a      *)
(* dictionary-aware class, the default dictionary of the source it was     *)
(* attached to for the others.                                             *)
(***************************************************************************)
C4_DictionaryResolution ==
    Attached =>
        LET where_sql == query.where[Len(query.where)].sqls[1]
            rank_sql == as_sql(query.aggregates[last.alias]).sql
        IN  /\ DictionaryIn(where_sql) = DictionaryIn(rank_sql)
            /\ DictionaryIn(where_sql) =
                   IF IsDictionaryAware(spec.cls) THEN spec.dictionary
                   ELSE last.source.dictionary

(***************************************************************************)
(* C5, as claimed.  A constructor given zero or two keyword arguments      *)
(* besides normalization raises the contract error, makes no object and    *)
(* touches no query; given exactly one it returns an object.               *)
(***************************************************************************)
C5_SingleArgument ==
    last.op = "__init__" =>
        /\ query.where = <<>> /\ query.aggregates = <<>>
        /\ (last.nargs # 1 => last.raised = "AssertionError" /\ spec = NoSpec)
        /\ (last.nargs = 1 => last.raised = "" /\ spec.cls = last.cls)

(***************************************************************************)
(* C5, amended.  A constructor given zero or two keyword arguments besides *)
(* normalization raises the contract error, makes no object and touches no *)
(* query; given exactly one it returns an object, unless the class is      *)
(* dictionary-aware and the path has fewer than two segments: then it      *)
(* raises ValueError and makes no object.                                  *)
(***************************************************************************)
C5_SingleArgumentOrShortPath ==
    last.op = "__init__" =>
        /\ query.where = <<>> /\ query.aggregates = <<>>
        /\ (last.nargs # 1 => last.raised = "AssertionError" /\ spec = NoSpec)
        /\ (last.nargs = 1 =>
              IF IsDictionaryAware(last.cls) /\ Find(last.name, LOOKUP_SEP, 1) = 0
              THEN last.raised = "ValueError" /\ spec = NoSpec
              ELSE last.raised = "" /\ spec.cls = last.cls
                       /\ spec.extra.kwargs = {Item(last.name)})

\* Two keyword arguments were refused.
C5_Witness ==
    /\ last.op = "__init__"
    /\ last.nargs = 2
    /\ last.raised = "AssertionError"
    /\ spec = NoSpec

(***************************************************************************)
(* C6.  A normalization list with an entry that is not a non-negative int  *)
(* is refused by the constructor: no object holds one, and none is in an   *)
(* aggregate of the query.                                                 *)
(***************************************************************************)
C6_NormalizationValidated ==
    /\ spec # NoSpec =>
           \A i \in 1..Len(spec.normalization) : ValidFlag(spec.normalization[i])
    /\ \A a \in DOMAIN query.aggregates :
           \A i \in 1..Len(query.aggregates[a].normalization) :
               ValidFlag(query.aggregates[a].normalization[i])

(***************************************************************************)
(* C7.  The default alias of an object of each of the four classes is its  *)
(* lookup path, the separator and the lower-cased name of its class.       *)
(***************************************************************************)
C7_DefaultAlias ==
    spec # NoSpec => default_alias(spec) = spec.lookup \o "__" \o Lower(spec.cls)

(***************************************************************************)
(* C8.  Rendering an aggregate whose normalization is a list n1..nk of     *)
(* non-negative ints returns one bound parameter, the prepared value, and  *)
(* a rank expression whose suffix is empty for k = 0 and else ', ' and the *)
(* decimal numerals of n1..nk, in this order, separated by '|'.            *)
(***************************************************************************)
C8_NormalizationRendering ==
    last.op = "as_sql" =>
        LET agg == query.aggregates[last.alias]
            ns == agg.normalization
        IN  (\A i \in 1..Len(ns) : ValidFlag(ns[i])) =>
                /\ last.raised = ""
                /\ last.params = <<agg.params>>
                /\ Len(last.params) = 1
                /\ IF ns = <<>> THEN SuffixOf(last.sql) = ""
                   ELSE LET suffix == SuffixOf(last.sql)
                            parts == Split(SubSeq(suffix, 3, Len(suffix)), "|")
                        IN  /\ SubSeq(suffix, 1, 2) = ", "
                            /\ Len(parts) = Len(ns)
                            /\ \A i \in 1..Len(ns) : ParseNat(parts[i]) = ns[i].value

\* [2, 32] was rendered.
C8_Witness ==
    /\ last.op = "as_sql"
    /\ last.raised = ""
    /\ last.sql = "ts_rank(\"article\".\"body\", to_tsquery('english', %s), 2|32)"
    /\ last.params = <<"Hello & world">>

(***************************************************************************)
(* C9, as claimed.  For a path of segments s1..sn, a dictionary-aware      *)
(* constructor refuses n < 2 and else takes s(n-1) as dictionary, sn as    *)
(* srt_lookup and s1..s(n-2) joined as lookup; the other constructors take *)
(* sn as srt_lookup, no dictionary and s1..s(n-1) joined as lookup; and    *)
(* lookup, the dictionary when parsed, and srt_lookup joined with the      *)
(* separator are the path.                                                 *)
(***************************************************************************)
C9_PathSplitting ==
    last.op = "__init__" /\ last.nargs = 1 =>
        \A segs \in SegSeqs :
            Join(LOOKUP_SEP, segs) = last.name =>
                LET n == Len(segs)
                IN  IF IsDictionaryAware(last.cls)
                    THEN IF n < 2 THEN last.raised # "" /\ spec = NoSpec
                         ELSE /\ last.raised = ""
                              /\ spec.dictionary = segs[n - 1]
                              /\ spec.srt_lookup = segs[n]
                              /\ spec.lookup = Join(LOOKUP_SEP, SubSeq(segs, 1, n - 2))
                              /\ spec.lookup \o LOOKUP_SEP \o spec.dictionary
                                     \o LOOKUP_SEP \o spec.srt_lookup = last.name
                    ELSE /\ last.raised = ""
                         /\ spec.dictionary = ""
                         /\ spec.srt_lookup = segs[n]
                         /\ spec.lookup = Join(LOOKUP_SEP, SubSeq(segs, 1, n - 1))
                         /\ spec.lookup \o LOOKUP_SEP \o spec.srt_lookup = last.name

(***************************************************************************)
(* C9, amended.  As claimed, but joining gives back the path only when     *)
(* segments are left for lookup (n >= 3 for a dictionary-aware class,      *)
(* n >= 2 for the others); when none is left, lookup is the empty string   *)
(* and the path is the dictionary, when parsed, joined with srt_lookup.    *)
(***************************************************************************)
C9_PathSplittingNonEmptyLookup ==
    last.op = "__init__" /\ last.nargs = 1 =>
        \A segs \in SegSeqs :
            Join(LOOKUP_SEP, segs) = last.name =>
                LET n == Len(segs)
                IN  IF IsDictionaryAware(last.cls)
                    THEN IF n < 2 THEN last.raised # "" /\ spec = NoSpec
                         ELSE /\ last.raised = ""
                              /\ spec.dictionary = segs[n - 1]
                              /\ spec.srt_lookup = segs[n]
                              /\ spec.lookup = Join(LOOKUP_SEP, SubSeq(segs, 1, n - 2))
                              /\ IF n >= 3
                                 THEN spec.lookup \o LOOKUP_SEP \o spec.dictionary
                                          \o LOOKUP_SEP \o spec.srt_lookup = last.name
                                 ELSE /\ spec.lookup = ""
                                      /\ spec.dictionary \o LOOKUP_SEP
                                             \o spec.srt_lookup = last.name
                    ELSE /\ last.raised = ""
                         /\ spec.dictionary = ""
                         /\ spec.srt_lookup = segs[n]
                         /\ spec.lookup = Join(LOOKUP_SEP, SubSeq(segs, 1, n - 1))
                         /\ IF n >= 2
                            THEN spec.lookup \o LOOKUP_SEP \o spec.srt_lookup = last.name
                            ELSE spec.lookup = "" /\ spec.srt_lookup = last.name

\* A dictionary-aware object of a three-segment path.
C9_Witness ==
    /\ last.op = "__init__"
    /\ last.name = "fts_index__portuguese__search"
    /\ spec.cls = "FTSRankCdDictionary"
    /\ spec.lookup = "fts_index"
    /\ spec.dictionary = "portuguese"
    /\ spec.srt_lookup = "search"

(***************************************************************************)
(* C10.  A call of add_to_query that returns leaves the object's           *)
(* dictionary, lookup, rhs, srt_lookup and normalization as they were.     *)
(***************************************************************************)
C10_AttachLeavesObject ==
    [][AttachStep =>
        /\ spec'.dictionary = spec.dictionary
        /\ spec'.lookup = spec.lookup
        /\ spec'.rhs = spec.rhs
        /\ spec'.srt_lookup = spec.srt_lookup
        /\ spec'.normalization = spec.normalization]_vars

====
